---- MODULE Spec2Model ----
(***************************************************************************)
(* n-step / 1-step Q-learning batch builder and training loop of           *)
(* src/algos/dqn.py.                                                       *)
(*                                                                         *)
(* Encoding.  Rewards, action values, gamma and losses are small naturals, *)
(* on which the float arithmetic of the source is exact.  An action-value  *)
(* vector is a sequence; the source's action index a (0-based) is kept as  *)
(* it is and reads entry a + 1.  Python's None is NoLimit for steps_limit  *)
(* and the empty vector NoneQ for last_q.                                  *)
(***************************************************************************)
EXTENDS Integers, Sequences, FiniteSets, TLC

\* ---------------------------------------------------------------- bounds
\* Environment steps taken in one create_batch call before the model stops.
MaxSteps == 3
\* Largest num_episodes tried.
MaxEpisodes == 2
\* Iterations of the training loop (args.iters) the model runs.
MaxIters == 2
\* Longest loss history one fit call reports.
MaxHist == 2

\* ------------------------------------------------------ program constants
epoch_limit == 10
step_limit == 300

\* ---------------------------------------------------------------- inputs
NoLimit == -1
NoneQ == <<>>
States == {0, 1}
\* What env.reset() returns.
InitialStates == {0}
Rewards == {0, 1}
Gammas == {1, 2}
n_actions == 2
Actions == 0 .. (n_actions - 1)
\* Outputs of the value model: one value per action.
QVecs == {<<0, 1>>, <<2, 0>>}
\* Value models: the two states are told apart.
Models == {m \in [States -> QVecs] : m[0] # m[1]}
StepsLimits == {NoLimit, 0, 1, 2}
\* Losses a fit call reports (mean squared errors), and "no loss yet".
Losses == 0 .. 2
NoLoss == -1

VARIABLES
    num_episodes, n_steps, steps_limit, gamma, run_model,  \* arguments
    samples, rewards,                                      \* lines 50-51
    ep,                \* episodes started by the for loop of line 53
    state, step, sum_reward, episode,                      \* lines 54-57
    last_q, R_sum,                                         \* lines 72-101
    end_q,             \* last_q as the play loop left it (lines 74, 79)
    steps_taken,       \* env.step calls made in this create_batch call
    batch, target_y,   \* line 145: what create_batch returned
    iter, epoch, start_loss, loss,                         \* lines 144-159
    fits,              \* model.fit calls made in this iteration
    raised,            \* the exception that ended the program, or "none"
    pc

vars == <<num_episodes, n_steps, steps_limit, gamma, run_model, samples,
          rewards, ep, state, step, sum_reward, episode, last_q, R_sum,
          end_q, steps_taken, batch, target_y, iter, epoch, start_loss,
          loss, fits, raised, pc>>

\* The training loop's variables.
tvars == <<batch, target_y, iter, epoch, start_loss, loss, fits, raised>>

\* The episode loop's variables.
evars == <<ep, state, step, sum_reward, episode, last_q, R_sum, end_q,
           steps_taken>>

args == <<num_episodes, n_steps, steps_limit, gamma, run_model>>

\* ------------------------------------------------------------- helpers
\* max(q) of a non-empty vector (lines 87, 97).
RECURSIVE MaxUpTo(_, _)
MaxUpTo(q, n) ==
    IF n = 1 THEN q[1]
    ELSE LET m == MaxUpTo(q, n - 1) IN IF q[n] > m THEN q[n] ELSE m

Max(q) == MaxUpTo(q, Len(q))

\* np.argmax: the first index holding the maximum (line 64), 0-based.
ArgMax(q) ==
    CHOOSE a \in Actions :
        /\ q[a + 1] = Max(q)
        /\ \A b \in Actions : b < a => q[b + 1] # Max(q)

\* Mutant: the whole vector is overwritten (target_q[:] = R).
TargetQAll(q_value, action, R) == [i \in 1 .. Len(q_value) |-> R]

\* np.copy(q_value) with target_q[action] = R (lines 98-99).
TargetQ(q_value, action, R) ==
    [i \in 1 .. Len(q_value) |-> IF i = action + 1 THEN R ELSE q_value[i]]

\* Mutant: the running return always starts from 0.
SeedOfZero(lq) == 0

\* The seed of the running return (lines 84-87).
SeedOf(lq) == IF lq = NoneQ THEN 0 ELSE Max(lq)

\* Mutant: the reward is discounted too.
NextRSumMisdiscount(Rs, g, reward) == (Rs + reward) * g

\* The running return after one transition (line 91).
NextRSum(Rs, g, reward) == Rs * g + reward

\* Mutant: 1-step mode never bootstraps.
TargetRNoBootstrap(ns, Rs, g, reward, lq) == IF ns THEN Rs ELSE reward

\* The target scalar of one transition (lines 92-97).
TargetR(ns, Rs, g, reward, lq) ==
    IF ns THEN Rs
    ELSE IF lq # NoneQ THEN reward + g * Max(lq) ELSE reward

\* Mutant: the overwritten target vector is handed on (last_q = target_q).
NextLastQOverwritten(q_value, target_q) == target_q

\* The bootstrap source handed to the next transition of the scan (line 101).
NextLastQ(q_value, target_q) == q_value

\* Mutant: the list is rebound instead of appended to.
AppendSampleOverwrite(out, st, target_q) ==
    <<[state |-> st, target_q |-> target_q]>>

\* samples.append((state, target_q)) (line 100).
AppendSample(out, st, target_q) ==
    Append(out, [state |-> st, target_q |-> target_q])

\* The backward scan of lines 89-101 over episode[1..k], from the running
\* return Rs and bootstrap source lq, appending to out.  The result holds
\* the loop's variables after its last iteration.
RECURSIVE Unrolled(_, _, _, _, _, _, _)
Unrolled(epi, k, Rs, lq, out, ns, g) ==
    IF k = 0 THEN [R_sum |-> Rs, last_q |-> lq, samples |-> out]
    ELSE LET t == epi[k]
             Rs2 == NextRSum(Rs, g, t.reward)
             R == TargetR(ns, Rs2, g, t.reward, lq)
             target_q == TargetQ(t.q_value, t.action, R)
         IN Unrolled(epi, k - 1, Rs2, NextLastQ(t.q_value, target_q),
                     AppendSample(out, t.state, target_q),
                     ns, g)

\* ---------------------------------------------------------------- Init
Init ==
    /\ num_episodes \in 0 .. MaxEpisodes
    /\ n_steps \in BOOLEAN
    /\ steps_limit \in StepsLimits
    /\ gamma \in Gammas
    /\ run_model \in Models
    /\ samples = <<>>
    /\ rewards = <<>>
    /\ ep = 0
    /\ state = 0
    /\ step = 0
    /\ sum_reward = 0
    /\ episode = <<>>
    /\ last_q = NoneQ
    /\ R_sum = 0
    /\ end_q = NoneQ
    /\ steps_taken = 0
    /\ batch = <<>>
    /\ target_y = <<>>
    /\ iter = 0
    /\ epoch = 0
    /\ start_loss = NoLoss
    /\ loss = NoLoss
    /\ fits = 0
    /\ raised = "none"
    /\ pc = "for"

\* ------------------------------------------------------------- actions
\* Lines 53-57: the for loop starts one more episode.
Reset ==
    /\ pc = "for"
    /\ ep < num_episodes
    /\ \E s0 \in InitialStates : state' = s0
    /\ ep' = ep + 1
    /\ step' = 0
    /\ sum_reward' = 0
    /\ episode' = <<>>
    /\ pc' = "while"
    /\ UNCHANGED <<args, tvars, samples, rewards, last_q, R_sum, end_q,
                   steps_taken>>

\* Whether the play loop leaves after a step (lines 73, 78).
Capped(limit, stp) == limit # NoLimit /\ limit = stp

\* Lines 58-81: one iteration of the play loop.
Step ==
    /\ pc = "while"
    /\ steps_taken < MaxSteps
    /\ \E explore \in BOOLEAN, rnd \in Actions, next_state \in States,
          reward \in Rewards, done \in BOOLEAN :
          LET q_value == run_model[state]
              action == IF explore THEN rnd ELSE ArgMax(q_value)
              sr == reward + gamma * sum_reward
          IN /\ episode' = Append(episode,
                     [state |-> state, q_value |-> q_value,
                      action |-> action, reward |-> reward])
             /\ sum_reward' = sr
             /\ state' = next_state
             /\ step' = step + 1
             /\ steps_taken' = steps_taken + 1
             /\ IF done
                   THEN /\ last_q' = NoneQ
                        /\ end_q' = NoneQ
                        /\ rewards' = Append(rewards, sr)
                        /\ pc' = "unroll"
                   ELSE IF Capped(steps_limit, step + 1)
                   THEN /\ last_q' = run_model[next_state]
                        /\ end_q' = run_model[next_state]
                        /\ rewards' = Append(rewards, sr)
                        /\ pc' = "unroll"
                   ELSE /\ UNCHANGED <<last_q, end_q, rewards>>
                        /\ pc' = "while"
    /\ UNCHANGED <<args, tvars, samples, ep, R_sum>>

\* Lines 83-101: the episode is unrolled backward into training samples.
Unroll ==
    /\ pc = "unroll"
    /\ LET u == Unrolled(episode, Len(episode), SeedOf(last_q), last_q,
                         samples, n_steps, gamma)
       IN /\ samples' = u.samples
          /\ R_sum' = u.R_sum
          /\ last_q' = u.last_q
    /\ state' = episode[1].state
    /\ pc' = "for"
    /\ UNCHANGED <<args, tvars, rewards, ep, step, sum_reward, episode,
                   end_q, steps_taken>>

\* Line 53: the for loop is exhausted.
EndFor ==
    /\ pc = "for"
    /\ ep = num_episodes
    /\ pc' = "log"
    /\ UNCHANGED <<args, tvars, evars, samples, rewards>>

Next == Reset \/ Step \/ Unroll \/ EndFor

Spec == Init /\ [][Next]_vars

\* ------------------------------------------------------- training loop
\* Sequences over S of length lo..hi.
SeqsOf(S, lo, hi) == UNION {[1 .. n -> S] : n \in lo .. hi}

\* The (state, target_q) pairs a played batch can hold.
TrainSamples == [state : States, target_q : QVecs]

\* The program after line 142, about to enter the loop of line 144.  The
\* model's predictions are read by the episode steps alone, which Spec has.
InitTrain ==
    /\ num_episodes \in 0 .. MaxEpisodes
    /\ n_steps = FALSE
    /\ steps_limit = step_limit
    /\ gamma = 1
    /\ run_model = CHOOSE m \in Models : TRUE
    /\ samples = <<>>
    /\ rewards = <<>>
    /\ ep = 0
    /\ state = 0
    /\ step = 0
    /\ sum_reward = 0
    /\ episode = <<>>
    /\ last_q = NoneQ
    /\ R_sum = 0
    /\ end_q = NoneQ
    /\ steps_taken = 0
    /\ batch = <<>>
    /\ target_y = <<>>
    /\ iter = 0
    /\ epoch = 0
    /\ start_loss = NoLoss
    /\ loss = NoLoss
    /\ fits = 0
    /\ raised = "none"
    /\ pc = "iter"

\* Line 144: the training loop starts one more iteration; iter counts the
\* iterations started.  What the iteration before left in batch, target_y,
\* epoch, start_loss and loss is not read again before lines 145-151 rebind
\* it; the model drops it here.
NextIter ==
    /\ pc = "iter"
    /\ iter < MaxIters
    /\ iter' = iter + 1
    /\ batch' = <<>>
    /\ target_y' = <<>>
    /\ epoch' = 0
    /\ start_loss' = NoLoss
    /\ loss' = NoLoss
    /\ fits' = 0
    /\ pc' = "play"
    /\ UNCHANGED <<args, evars, samples, rewards, raised>>

\* Lines 145 and 50-101: create_batch is called and plays num_episodes
\* episodes of at least one step each (Spec has the steps), leaving their
\* samples and per-episode rewards.
PlayEpisodes ==
    /\ pc = "play"
    /\ samples' \in SeqsOf(TrainSamples, num_episodes, MaxSteps)
    /\ num_episodes = 0 => samples' = <<>>
    /\ rewards' \in [1 .. num_episodes -> Rewards]
    /\ pc' = "log"
    /\ UNCHANGED <<args, evars, tvars>>

\* Mutant: x[i] = x[j]; x[j] = x[i] without a temporary.
SwapAliased(x, i, j) == [x EXCEPT ![i] = x[j]]

\* x[i], x[j] = x[j], x[i]
Swap(x, i, j) == [x EXCEPT ![i] = x[j], ![j] = x[i]]

\* np.random.shuffle on a list (line 106): from the last position down to
\* the second, each is swapped with a random position not after it.
RECURSIVE ShuffleFrom(_, _, _)
ShuffleFrom(x, i, picks) ==
    IF i < 2 THEN x ELSE ShuffleFrom(Swap(x, i, picks[i]), i - 1, picks)

\* The random positions one shuffle of n elements can draw.
Picks(n) == {f \in [2 .. n -> 1 .. n] : \A i \in 2 .. n : f[i] <= i}

\* list(map(np.array, zip(*samples))) (line 107): no array for no sample,
\* else the states and the targets.
Zipped(x) ==
    IF x = <<>> THEN <<>>
    ELSE << [i \in 1 .. Len(x) |-> x[i].state],
            [i \in 1 .. Len(x) |-> x[i].target_q] >>

\* Lines 103-107 and 145-150: create_batch logs, shuffles and returns, the
\* caller unpacks the two sequences and prepares the fit loop.  np.max of
\* no rewards raises ValueError, and so does unpacking an empty list.
ReturnBatch ==
    /\ pc = "log"
    /\ IF rewards = <<>>
          THEN /\ raised' = "ValueError"
               /\ pc' = "raised"
               /\ UNCHANGED <<samples, rewards, batch, target_y>>
          ELSE \E picks \in Picks(Len(samples)) :
                  LET result == Zipped(ShuffleFrom(samples, Len(samples), picks))
                  IN IF Len(result) # 2
                        THEN /\ raised' = "ValueError"
                             /\ pc' = "raised"
                             /\ UNCHANGED <<samples, rewards, batch, target_y>>
                        ELSE /\ batch' = result[1]
                             /\ target_y' = result[2]
                             /\ samples' = <<>>
                             /\ rewards' = <<>>
                             /\ pc' = "fit"
                             /\ UNCHANGED raised
    /\ epoch' = 0
    /\ start_loss' = NoLoss
    /\ loss' = NoLoss
    /\ UNCHANGED <<args, evars, iter, fits>>

\* np.min and np.max of a loss history (lines 153, 156).
RECURSIVE MinUpTo(_, _)
MinUpTo(h, n) ==
    IF n = 1 THEN h[1]
    ELSE LET m == MinUpTo(h, n - 1) IN IF h[n] < m THEN h[n] ELSE m

Min(h) == MinUpTo(h, Len(h))

\* Mutant: the threshold of the comment of line 147 ("decreased 10 times").
ConvergedTenfold(start, lo) == start > 10 * lo

\* start_loss / loss > 1.5 (line 158) on non-negative losses; numpy's
\* division by zero gives inf (nan for 0 / 0) and raises nothing.
Converged(start, lo) == 2 * start > 3 * lo

\* Lines 151-159: one pass of the fit loop; epoch is the index the next
\* pass runs with.
Fit ==
    /\ pc = "fit"
    /\ epoch < epoch_limit
    /\ \E history \in SeqsOf(Losses, 1, MaxHist) :
          /\ loss' = Min(history)
          /\ fits' = fits + 1
          /\ start_loss' = IF start_loss = NoLoss THEN Max(history)
                                                  ELSE start_loss
          /\ IF start_loss # NoLoss /\ Converged(start_loss, Min(history))
                THEN /\ epoch' = epoch
                     /\ pc' = "iter"
                ELSE /\ epoch' = epoch + 1
                     /\ pc' = IF epoch + 1 = epoch_limit THEN "iter" ELSE "fit"
    /\ UNCHANGED <<args, evars, samples, rewards, batch, target_y, iter,
                   raised>>

NextTrain == NextIter \/ PlayEpisodes \/ ReturnBatch \/ Fit

SpecTrain == InitTrain /\ [][NextTrain]_vars

\* ------------------------------------------------- reading the samples
\* The latest episode has been played and unrolled: its transitions are
\* episode[1..T] in time order and its samples are the last T of samples,
\* in reverse time order.
EpisodeDone == pc \in {"for", "log"} /\ ep > 0

T == Len(episode)

\* The sample built from the transition at time index i (1-based).
SampleOf(i) == samples[Len(samples) - i + 1]

\* Its target scalar: target_q[action].
Target(i) == SampleOf(i).target_q[episode[i].action + 1]

\* The largest entry of a vector, stated without the model's Max.
MaxEntry(q) == CHOOSE v \in {q[j] : j \in DOMAIN q} : \A j \in DOMAIN q : q[j] <= v

RECURSIVE Pow(_, _)
Pow(b, n) == IF n = 0 THEN 1 ELSE b * Pow(b, n - 1)

\* sum over k in i..T of g^(k-i) * r_k
RECURSIVE DiscountedFrom(_, _, _)
DiscountedFrom(i, k, g) ==
    IF k > T THEN 0
    ELSE Pow(g, k - i) * episode[k].reward + DiscountedFrom(i, k + 1, g)

\* 0 after done, the largest predicted value at the state reached after the
\* last step when the step cap cut the episode.
Seed == IF end_q = NoneQ THEN 0 ELSE MaxEntry(end_q)

\* C1 as stated: in n-step mode with gamma = 1 the first transition's target
\* scalar equals the sum of the episode's rewards, for every episode played.
C1_FirstTargetIsRewardSum ==
    (EpisodeDone /\ n_steps /\ gamma = 1) => Target(1) = DiscountedFrom(1, 1, 1)

\* C1 amended: in n-step mode with gamma = 1 the first transition's target
\* scalar equals the sum of the episode's rewards when the environment
\* reported done, and that sum plus the largest predicted value at the state
\* reached after the last step when the step cap cut the episode.
C1_FirstTargetIsRewardSumPlusSeed ==
    (EpisodeDone /\ n_steps /\ gamma = 1) =>
        Target(1) = DiscountedFrom(1, 1, 1) + Seed

C1_Witness ==
    /\ EpisodeDone /\ n_steps /\ gamma = 1
    /\ T = 2 /\ end_q # NoneQ
    /\ episode[1].reward = 1 /\ episode[2].reward = 1
    /\ Target(1) = 4

\* C2: in 1-step mode every transition but the last in time has target
\* reward + gamma * max(prediction recorded for the next transition), and the
\* last transition of an episode ended by done has target reward.
C2_OneStepTargets ==
    (EpisodeDone /\ ~n_steps) =>
        /\ \A i \in 1 .. (T - 1) :
              Target(i) = episode[i].reward
                            + gamma * MaxEntry(episode[i + 1].q_value)
        /\ end_q = NoneQ => Target(T) = episode[T].reward

\* A done-ended episode whose second target vector has another maximum than
\* the prediction it overwrote.
C2_Witness ==
    /\ EpisodeDone /\ ~n_steps /\ gamma = 2
    /\ T = 3 /\ end_q = NoneQ
    /\ MaxEntry(SampleOf(2).target_q) # MaxEntry(episode[2].q_value)
    /\ MaxEntry(SampleOf(3).target_q) # MaxEntry(episode[3].q_value)
    /\ Target(1) > episode[1].reward

\* The coordinates (1-based) where the sample of transition i departs from
\* the prediction it was built from.
Differing(i) ==
    {j \in 1 .. n_actions : SampleOf(i).target_q[j] # episode[i].q_value[j]}

\* C3 as stated: every target vector has the prediction's length and differs
\* from it in exactly one coordinate, the chosen action's.
C3_ExactlyOneDiffers ==
    EpisodeDone =>
        \A i \in 1 .. T :
            /\ Len(SampleOf(i).target_q) = Len(episode[i].q_value)
            /\ Differing(i) = {episode[i].action + 1}

\* C3 amended: every target vector has the prediction's length and differs
\* from it in at most one coordinate, which can only be the chosen action's
\* (none differs when the computed target equals the predicted value).
C3_AtMostOneDiffers ==
    EpisodeDone =>
        \A i \in 1 .. T :
            /\ Len(SampleOf(i).target_q) = Len(episode[i].q_value)
            /\ SampleOf(i).state = episode[i].state
            /\ Differing(i) \subseteq {episode[i].action + 1}

C3_Witness ==
    /\ EpisodeDone /\ T = 2
    /\ Differing(1) = {episode[1].action + 1}
    /\ Differing(2) = {}
    /\ episode[1].action # episode[2].action

\* C5: create_batch holds as many samples as environment steps were taken in
\* all the episodes it played.
C5_SampleCountIsStepCount ==
    pc \in {"for", "log"} => Len(samples) = steps_taken

C5_Witness ==
    pc = "log" /\ ep = 2 /\ steps_taken = 3 /\ Len(samples) = 3

\* C7: in n-step mode the target of the transition at time i is the
\* discounted sum of the rewards from i on plus gamma^(T-i) * seed (i counted
\* from 0), the seed being 0 after done and the largest predicted value at
\* the state after the last step after a cut by the step cap.
C7_NStepTargets ==
    (EpisodeDone /\ n_steps) =>
        \A i \in 1 .. T :
            Target(i) = DiscountedFrom(i, i, gamma)
                          + Pow(gamma, T - i + 1) * Seed

\* Three steps of reward 1 ended by done with gamma = 1: targets 3, 2, 1.
C7_Witness ==
    /\ EpisodeDone /\ n_steps /\ gamma = 1 /\ T = 3 /\ end_q = NoneQ
    /\ \A i \in 1 .. 3 : episode[i].reward = 1
    /\ Target(1) = 3 /\ Target(2) = 2 /\ Target(3) = 1

\* C8: with steps_limit set, the play loop is left at the first step on
\* which the environment reports done or the step count equals steps_limit,
\* so no episode records more than steps_limit transitions.
C8_StepCapBoundsEpisode ==
    steps_limit # NoLimit => Len(episode) <= steps_limit

\* C10: in 1-step mode the last transition of an episode cut by the step cap
\* has target reward + gamma * max(prediction at the state after the last
\* step); the last transition's 1-step target equals its n-step target after
\* either kind of episode end.
C10_CappedOneStepTarget ==
    (EpisodeDone /\ ~n_steps) =>
        /\ end_q # NoneQ =>
              Target(T) = episode[T].reward + gamma * MaxEntry(end_q)
        /\ Target(T) = TargetR(TRUE, NextRSum(Seed, gamma, episode[T].reward),
                               gamma, episode[T].reward, end_q)

C10_Witness ==
    /\ EpisodeDone /\ ~n_steps /\ gamma = 2 /\ T = 2
    /\ end_q = <<2, 0>>
    /\ episode[2].reward = 1
    /\ Target(2) = 5

\* --------------------------------------------- claims on the training loop
\* A played batch, for the link between the two specifications: what
\* PlayEpisodes draws from covers what the episode loop leaves.
PlayedBatchShape ==
    pc = "log" =>
        /\ Len(rewards) = num_episodes
        /\ Len(samples) >= num_episodes
        /\ num_episodes = 0 => samples = <<>>
        /\ \A i \in 1 .. Len(samples) :
              /\ samples[i].state \in States
              /\ Len(samples[i].target_q) = n_actions

\* C4: with num_episodes = 0 no exception is raised, neither in create_batch
\* nor where the training loop unpacks its result.
C4_NoEpisodesNoException == num_episodes = 0 => raised = "none"

\* How often x occurs in a sequence.
Occurrences(seq, x) == Cardinality({i \in DOMAIN seq : seq[i] = x})

\* The pairs read at equal index from two sequences.
PairsOf(b, t) == [i \in 1 .. Len(b) |-> [state |-> b[i], target_q |-> t[i]]]

\* C6: the two returned sequences have one length, and the pairs read from
\* them at equal index are the samples built before the shuffle, each as
\* often as it was built.
C6_ShuffleKeepsPairs ==
    [][(pc = "log" /\ pc' = "fit") =>
          /\ Len(batch') = Len(samples)
          /\ Len(target_y') = Len(samples)
          /\ \A x \in TrainSamples :
                Occurrences(PairsOf(batch', target_y'), x)
                    = Occurrences(samples, x)]_vars

\* A returned batch of three samples, no two alike.
C6_Witness ==
    /\ pc = "fit" /\ fits = 0 /\ Len(batch) = 3
    /\ Cardinality({PairsOf(batch, target_y)[i] : i \in 1 .. 3}) = 3

====
